---- MODULE Spec2Model ----
(***************************************************************************)
(* The service worker of the customer app (public/sw.js): the versioned    *)
(* cache stores and their lifecycle (install, activate), the three caching *)
(* strategies behind the fetch listener, and the push payload decoder.     *)
(*                                                                         *)
(* Every listener is modelled as its synchronous part followed by one      *)
(* action per asynchronous continuation (promise callback), so the         *)
(* interleavings of concurrently running handlers are those of the event   *)
(* loop.  CacheStorage, fetch() and showNotification() are the platform;   *)
(* their outcomes are drawn from small sets.                               *)
(***************************************************************************)
EXTENDS Integers, Sequences, FiniteSets, TLC

\* ------------------------------------------------------------------ bounds
\* Fetch events dispatched in one behaviour.
MaxReq == 2
\* Worker versions (install/activate rounds) in one behaviour.
MaxRounds == 2

\* --------------------------------------------------------------- constants
CACHE_NAME == "artisan-roasters-v1"
RUNTIME_CACHE == "artisan-roasters-runtime-v1"

\* Store names a previous worker version may have left behind: what
\* caches.keys() can list besides the two current names.
OldStatic == "artisan-roasters-v0"
OldRuntime == "artisan-roasters-runtime-v0"
OldNames == {OldStatic, OldRuntime}
AllNames == {CACHE_NAME, RUNTIME_CACHE} \cup OldNames

\* A URL path, split where the listener's tests look at it: the directory
\* prefix ("/" or "/api/"), the file stem and the extension after the last dot.
Path(dir, stem, ext) == [dir |-> dir, stem |-> stem, ext |-> ext]
RootPath == Path("/", "", "")
IndexPath == Path("/", "index", "html")
LogoPath == Path("/", "logo", "svg")
ManifestPath == Path("/", "manifest", "json")

STATIC_ASSETS == <<RootPath, IndexPath, LogoPath, ManifestPath>>
AssetIdx == 1..Len(STATIC_ASSETS)

\* new URL(request.url): protocol, origin ("self" is the worker's origin) and path.
Url(protocol, origin, path) == [protocol |-> protocol, origin |-> origin, path |-> path]
SelfUrl(path) == Url("https:", "self", path)

\* A Request: method, url and whether its accept header includes text/html.
Request(method, url, acceptHtml) == [method |-> method, url |-> url, acceptHtml |-> acceptHtml]

\* The cache key of a request is its URL.
KeyOf(request) == request.url

\* ---------------------------------------------------------------- responses
None == [none |-> TRUE]

Response(status, type, ctype, body) ==
  [status |-> status, type |-> type, ctype |-> ctype, body |-> body]

\* new Response(JSON.stringify({error: ...}), {status: 503, ...})
Synth503 ==
  Response(503, "default", "application/json",
           "{\"error\":\"Network unavailable and no cached data\"}")

\* What fetch(request) can settle to: a network failure, or a response whose
\* type follows from the request's origin (same-origin: basic, else cors).
NetBodies == {"A", "B"}
NetFail == [fail |-> TRUE]
TypeFor(request) == IF request.url.origin = "self" THEN "basic" ELSE "cors"
NetOutcomes(request) ==
  {NetFail}
    \cup {Response(200, TypeFor(request), "server", b) : b \in NetBodies}
    \cup {Response(404, TypeFor(request), "server", "not found")}

\* An entry a previous version wrote.
OldEntry == Response(200, "basic", "server", "old")

\* ------------------------------------------------------------------ stores
\* A store's content: a function from the keys it holds to responses.
EmptyStore == [k \in {} |-> None]
StoreGet(content, key) == IF key \in DOMAIN content THEN content[key] ELSE None

StorePutIfAbsent(content, key, resp) ==
  [k \in DOMAIN content \cup {key} |->
     IF k \in DOMAIN content THEN content[k] ELSE resp]

\* A store keyed by the path alone: the write replaces the entry of every
\* URL with the key's path.
StorePutByPath(content, key, resp) ==
  [k \in DOMAIN content \cup {key} |->
     IF k.path = key.path THEN resp ELSE content[k]]

\* cache.put(request, response): a full-key overwrite.
StorePut(content, key, resp) ==
  [k \in DOMAIN content \cup {key} |-> IF k = key THEN resp ELSE content[k]]

SeqToSet(s) == {s[i] : i \in 1..Len(s)}

VARIABLES
  cacheNames,    \* existing store names, in creation order (caches.keys())
  cacheData,     \* content of every store name (empty when it does not exist)
  round,         \* which worker version is running its lifecycle
  swState,       \* ServiceWorker.state of the current version
  installPc,     \* position of the install handler's promise chain
  installFetch,  \* install handler local: which asset fetches failed
  skipWaiting,   \* self.skipWaiting() was called
  actPc,         \* position of the activate handler's promise chain
  delPending,    \* caches.delete(name) calls in flight
  delFailed,     \* names whose deletion rejected
  actKeys,       \* activate handler local: the names caches.keys() listed
  claimed,       \* self.clients.claim() was called by the current version
  req,           \* the fetch handlers: one record per dispatched fetch event
  lastWriter,    \* history: which handler's put last wrote each runtime key
  push,          \* the push handler
  click,         \* the notificationclick handler
  controller     \* per open page: the worker version controlling it, 0 for none

vars ==
  <<cacheNames, cacheData, round, swState, installPc, installFetch, skipWaiting,
    actPc, delPending, delFailed, actKeys, claimed, req, lastWriter, push, click,
    controller>>

lifecycleVars ==
  <<round, swState, installPc, installFetch, skipWaiting, actPc, delPending,
    delFailed, actKeys, claimed, controller>>

Names == SeqToSet(cacheNames)
Current == {CACHE_NAME, RUNTIME_CACHE}

\* caches.open(name): the store is created when it does not exist yet.
OpenedNames(names, name) ==
  IF name \in SeqToSet(names) THEN names ELSE Append(names, name)

\* caches.delete(name) fulfilled: the name is no longer listed.
RemoveName(names, name) == SelectSeq(names, LAMBDA n : n # name)

\* -------------------------------------------------------------- lifecycle
\* Open pages (window clients) of the app.
MaxPages == 2
Pages == 1..MaxPages

\* self.clients.claim(): every open page in scope is controlled by this version.
ClaimedBy(ctl, version) == [p \in DOMAIN ctl |-> version]

\* A platform that leaves every page with the worker it has.
TakenOverNone(ctl, version) == ctl

\* The platform, when a worker that skipped waiting becomes the active one:
\* the pages its predecessor controlled are controlled by it from then on;
\* the pages no worker controls stay that way.
TakenOverBy(ctl, version) ==
  [p \in DOMAIN ctl |-> IF ctl[p] # 0 THEN version ELSE 0]

\* What the asset requests of install resolve to when the fetch succeeds.
InstallBody == "A"
AssetKey(i) == SelfUrl(STATIC_ASSETS[i])
AssetKeys == {AssetKey(i) : i \in AssetIdx}

\* cache.addAll(requests) is all-or-nothing: it fetches every request and
\* stores the responses only when every fetch produced an ok response;
\* otherwise it rejects and stores nothing.
AddAll(content, failed) ==
  IF failed = {}
  THEN [k \in DOMAIN content \cup AssetKeys |->
          IF k \in AssetKeys THEN Response(200, "basic", "server", InstallBody)
          ELSE content[k]]
  ELSE content

\* install listener, synchronous part and caches.open(CACHE_NAME).
InstallOpen ==
  /\ swState = "installing"
  /\ installPc = "idle"
  /\ cacheNames' = OpenedNames(cacheNames, CACHE_NAME)
  /\ installPc' = "opened"
  /\ UNCHANGED <<cacheData, round, swState, installFetch, skipWaiting, actPc,
                 delPending, delFailed, actKeys, claimed, req, lastWriter, push, click, controller>>

\* cache.addAll(...) settles; failed is the set of asset fetches that failed.
\* A rejection is caught (logged) and the chain goes on.
InstallAddAll(failed) ==
  /\ installPc = "opened"
  /\ cacheData' = [cacheData EXCEPT ![CACHE_NAME] = AddAll(@, failed)]
  /\ installFetch' = failed
  /\ installPc' = "populated"
  /\ UNCHANGED <<cacheNames, round, swState, skipWaiting, actPc, delPending,
                 delFailed, actKeys, claimed, req, lastWriter, push, click, controller>>

\* skipWaiting() called only in the chain of a population that succeeded.
SkipWaitingIfStored(failed) == failed = {}

\* Whether self.skipWaiting() is called after the population settled with
\* the given failed fetches: the .then follows the .catch, so always.
SkipWaitingAfter(failed) == TRUE

\* .then(() => self.skipWaiting()): the promise given to waitUntil settles
\* and the worker is installed.
InstallSkipWaiting ==
  /\ installPc = "populated"
  /\ skipWaiting' = SkipWaitingAfter(installFetch)
  /\ installPc' = "done"
  /\ installFetch' = {}
  /\ swState' = "installed"
  /\ UNCHANGED <<cacheNames, cacheData, round, actPc, delPending, delFailed,
                 actKeys, claimed, req, lastWriter, push, click, controller>>

StaleNamesOr(names) ==
  {n \in SeqToSet(names) : n # CACHE_NAME \/ n # RUNTIME_CACHE}

StaleNamesStaticOnly(names) ==
  {n \in SeqToSet(names) : n # CACHE_NAME}

\* The names the activate listener deletes.
StaleNames(names) ==
  {n \in SeqToSet(names) : n # CACHE_NAME /\ n # RUNTIME_CACHE}

\* The platform activates an installed worker that asked to skip waiting;
\* activate listener, synchronous part: caches.keys() is called.
ActivateEvent ==
  /\ swState = "installed"
  /\ skipWaiting
  /\ swState' = "activating"
  /\ actPc' = "keys"
  /\ controller' = TakenOverBy(controller, round)
  /\ UNCHANGED <<cacheNames, cacheData, round, installPc, installFetch,
                 skipWaiting, delPending, delFailed, actKeys, claimed, req,
                 lastWriter, push, click>>

\* caches.keys() settles: every stale name's caches.delete is started.
ActivateKeys ==
  /\ actPc = "keys"
  /\ actKeys' = cacheNames
  /\ delPending' = StaleNames(cacheNames)
  /\ delFailed' = {}
  /\ actPc' = "deleting"
  /\ UNCHANGED <<cacheNames, cacheData, round, swState, installPc, installFetch,
                 skipWaiting, claimed, req, lastWriter, push, click, controller>>

\* Deletions made one after the other: a rejection ends the sequence.
PendingAfterAbort(pending, n, ok) == IF ok THEN pending \ {n} ELSE {}

\* The deletions in flight after the one of n settled: cacheNames.map
\* started them all, and Promise.all cancels none.
PendingAfter(pending, n, ok) == pending \ {n}

\* One caches.delete(name) settles, fulfilled (ok) or rejected.
DeleteSettle(n, ok) ==
  /\ n \in delPending
  /\ delPending' = PendingAfter(delPending, n, ok)
  /\ IF ok
     THEN /\ cacheNames' = RemoveName(cacheNames, n)
          /\ cacheData' = [cacheData EXCEPT ![n] = EmptyStore]
          /\ UNCHANGED delFailed
     ELSE /\ delFailed' = delFailed \cup {n}
          /\ UNCHANGED <<cacheNames, cacheData>>
  /\ UNCHANGED <<round, swState, installPc, installFetch, skipWaiting, actPc,
                 actKeys, claimed, req, lastWriter, push, click, controller>>

\* Promise.all fulfilled: .then(() => self.clients.claim()), and the worker
\* is activated.
ActivateClaim ==
  /\ actPc = "deleting"
  /\ delPending = {}
  /\ delFailed = {}
  /\ claimed' = TRUE
  /\ controller' = ClaimedBy(controller, round)
  /\ actPc' = "done"
  /\ swState' = "activated"
  /\ UNCHANGED <<cacheNames, cacheData, round, installPc, installFetch,
                 skipWaiting, delPending, delFailed, actKeys, req, lastWriter,
                 push, click>>

\* Promise.all rejected by the first failed deletion: the claim callback is
\* skipped, the promise given to waitUntil rejects, and the platform
\* activates the worker all the same.
ActivateReject ==
  /\ actPc = "deleting"
  /\ delFailed # {}
  /\ actPc' = "rejected"
  /\ swState' = "activated"
  /\ UNCHANGED <<cacheNames, cacheData, round, installPc, installFetch,
                 skipWaiting, delPending, delFailed, actKeys, claimed, req,
                 lastWriter, push, click, controller>>

\* A new version of the worker script (same store names) is found by the
\* registration's update check and starts its own install.
Update ==
  /\ swState = "activated"
  /\ round < MaxRounds
  /\ delPending = {}
  /\ round' = round + 1
  /\ swState' = "installing"
  /\ installPc' = "idle"
  /\ actPc' = "idle"
  /\ skipWaiting' = FALSE
  /\ claimed' = FALSE
  /\ actKeys' = <<>>
  /\ delFailed' = {}
  /\ UNCHANGED <<cacheNames, cacheData, installFetch, delPending, req,
                 lastWriter, push, click, controller>>

\* The version of the registration's active worker, 0 when there is none:
\* this version once it activates, its predecessor before that.
ActiveVersion ==
  IF swState \in {"activating", "activated"} THEN round ELSE round - 1

\* An open page is loaded again (window 'load', where the page registers the
\* worker): the registration's active worker controls it from the start.
PageLoad(p) ==
  /\ ActiveVersion # 0
  /\ controller[p] # ActiveVersion
  /\ controller' = [controller EXCEPT ![p] = ActiveVersion]
  /\ UNCHANGED <<cacheNames, cacheData, round, swState, installPc, installFetch,
                 skipWaiting, actPc, delPending, delFailed, actKeys, claimed,
                 req, lastWriter, push, click>>

\* ------------------------------------------------------------ fetch router
StaticExts ==
  {"js", "css", "png", "jpg", "jpeg", "gif", "svg", "ico", "woff", "woff2",
   "ttf", "eot"}

\* url.pathname.match(/\.(js|css|...)$/) || pathname === '/' || pathname === '/index.html'
IsStaticAsset(url) ==
  \/ url.path.ext \in StaticExts
  \/ url.path = RootPath
  \/ url.path = IndexPath

\* url.pathname.startsWith('/api/')
IsApiCall(url) == url.path.dir = "/api/"

\* request.method !== 'GET' and !url.protocol.startsWith('http'): return
\* without respondWith.
Intercepted(request) ==
  /\ request.method = "GET"
  /\ request.url.protocol \in {"http:", "https:"}

\* A listener that tests the accept header and the API prefix first.
ClassifyStaticLast(request) ==
  IF ~Intercepted(request) THEN "none"
  ELSE IF request.acceptHtml THEN "html"
  ELSE IF IsApiCall(request.url) THEN "api"
  ELSE IF IsStaticAsset(request.url) THEN "static"
  ELSE "other"

\* The branch of the fetch listener a request takes.
Classify(request) ==
  IF ~Intercepted(request) THEN "none"
  ELSE IF IsStaticAsset(request.url) THEN "static"
  ELSE IF request.acceptHtml THEN "html"
  ELSE IF IsApiCall(request.url) THEN "api"
  ELSE "other"

\* The requests pages make in this model.
UserPath == Path("/api/", "user", "")
ReqLogo == Request("GET", SelfUrl(LogoPath), FALSE)
ReqManifest == Request("GET", SelfUrl(ManifestPath), FALSE)
ReqPost == Request("POST", SelfUrl(UserPath), FALSE)
\* The same URL as a navigation (accept: text/html) and as an API call, and
\* the API of another origin.
ReqPage == Request("GET", SelfUrl(UserPath), TRUE)
ReqApi == Request("GET", SelfUrl(UserPath), FALSE)
ReqApiX == Request("GET", Url("https:", "other", UserPath), FALSE)
\* A static asset of another origin.
ReqFontX == Request("GET", Url("https:", "other", Path("/", "font", "woff2")), FALSE)
\* Requests served from the static store or passed through.
StaticRequests == {ReqLogo, ReqManifest, ReqPost, ReqFontX}
\* Requests served through the runtime store.
RuntimeRequests == {ReqPage, ReqApi, ReqApiX}
\* Every kind of request the listener's tests tell apart: method, scheme,
\* path (static or not, under the API prefix or not) and accept header.
AvatarPath == Path("/api/", "avatar", "png")
DocPath == Path("/", "menu", "")
RouterPaths == {RootPath, IndexPath, LogoPath, ManifestPath, UserPath, AvatarPath, DocPath}
RouterRequests ==
  {Request(m, Url(pr, "self", pa), acc) :
     m \in {"GET", "POST"}, pr \in {"https:", "chrome-extension:"},
     pa \in RouterPaths, acc \in BOOLEAN}
AnyNetOutcome == NetOutcomes(ReqApi) \cup NetOutcomes(ReqApiX)

\* caches.match(request): the first store, in creation order, holding the key.
RECURSIVE CachesMatchFrom(_, _, _, _)
CachesMatchFrom(names, data, key, i) ==
  IF i > Len(names) THEN None
  ELSE IF key \in DOMAIN data[names[i]] THEN data[names[i]][key]
  ELSE CachesMatchFrom(names, data, key, i + 1)
CachesMatchRuntimeOnly(names, data, key) ==
  IF key \in DOMAIN data[RUNTIME_CACHE] THEN data[RUNTIME_CACHE][key] ELSE None

CachesMatch(names, data, key) == CachesMatchFrom(names, data, key, 1)

\* ---------------------------------------------------------- fetch handlers
Rejected == [rejected |-> TRUE]
Undefined == [undefined |-> TRUE]

Handlers == 1..MaxReq

IdleHandler ==
  [pc |-> "idle", request |-> None, cls |-> "none", cached |-> None,
   src |-> 0, net |-> None, result |-> None, put |-> "none", netCalls |-> 0,
   after |-> {}, replaced |-> None]

IsResponse(x) == "status" \in DOMAIN x
Responded(h) == req[h].result # None

\* The store a handler's cache.put goes to.
PutStore(cls) == IF cls = "static" THEN CACHE_NAME ELSE RUNTIME_CACHE

WriterOf(store, key) ==
  IF key \in DOMAIN lastWriter[store] THEN lastWriter[store][key] ELSE 0

\* A fetch event reaches the active worker: while this version is activated,
\* or (from the second version on) while the next one is installing or
\* waiting.  Fetch events wait while the worker is activating.
HasActiveWorker ==
  \/ swState = "activated"
  \/ round > 1 /\ swState \in {"installing", "installed"}

\* fetch listener, synchronous part: the method and protocol tests, the
\* class tests in order, and the first call of the branch taken.
FetchEvent(h, r) ==
  /\ HasActiveWorker
  /\ req[h].pc = "idle"
  /\ \A j \in 1..(h - 1) : req[j].pc # "idle"
  /\ LET cls == Classify(r) IN
     req' = [req EXCEPT ![h] =
       [@ EXCEPT !.request = r,
                 !.cls = cls,
                 !.after = {j \in Handlers : req[j].pc = "done"},
                 !.netCalls = IF cls = "other" THEN 1 ELSE 0,
                 !.pc = CASE cls = "none" -> "skipped"
                          [] cls = "static" -> "match"
                          [] cls = "html" -> "match"
                          [] cls = "api" -> "open"
                          [] OTHER -> "fetching"]]
  /\ UNCHANGED <<cacheNames, cacheData, lifecycleVars, lastWriter, push, click>>

\* Cache-first, caches.match(request) settles: a hit is the response; on a
\* miss fetch(request) is called.
CFMatch(h) ==
  /\ req[h].cls = "static"
  /\ req[h].pc = "match"
  /\ LET c == CachesMatch(cacheNames, cacheData, KeyOf(req[h].request)) IN
     req' = [req EXCEPT ![h] =
       IF c # None
       THEN [@ EXCEPT !.cached = c, !.result = c, !.pc = "done"]
       ELSE [@ EXCEPT !.netCalls = @ + 1, !.pc = "fetching"]]
  /\ UNCHANGED <<cacheNames, cacheData, lifecycleVars, lastWriter, push, click>>

\* A test of the status alone.
ShouldCacheStaticStatusOnly(resp) == resp.status = 200

\* !response || response.status !== 200 || response.type !== 'basic': not cached.
ShouldCacheStatic(resp) == resp.status = 200 /\ resp.type = "basic"

\* Cache-first, fetch(request) settles.  A failure rejects the promise given
\* to respondWith; a cacheable response starts caches.open(CACHE_NAME) and
\* cache.put (not awaited) and is returned.
CFNet(h, out) ==
  /\ req[h].cls = "static"
  /\ req[h].pc = "fetching"
  /\ out \in NetOutcomes(req[h].request)
  /\ req' = [req EXCEPT ![h] =
       IF out = NetFail
       THEN [@ EXCEPT !.net = out, !.result = Rejected, !.pc = "done"]
       ELSE [@ EXCEPT !.net = out, !.result = out, !.pc = "done",
                      !.put = IF ShouldCacheStatic(out) THEN "pending" ELSE "none"]]
  /\ UNCHANGED <<cacheNames, cacheData, lifecycleVars, lastWriter, push, click>>

\* networkResponse && networkResponse.status === 200: cached in the runtime store.
ShouldCacheRuntime(resp) == resp.status = 200

SWRReturnFresh(cached, fetched) == IF fetched # None THEN fetched ELSE cached

\* return cachedResponse || fetchPromise
SWRReturn(cached, fetched) == IF cached # None THEN cached ELSE fetched

\* Stale-while-revalidate, caches.open(RUNTIME_CACHE) and cache.match(request)
\* settle: fetch(request) is called, and a cached response is returned at once.
SWRMatch(h) ==
  /\ req[h].cls = "html"
  /\ req[h].pc = "match"
  /\ cacheNames' = OpenedNames(cacheNames, RUNTIME_CACHE)
  /\ LET key == KeyOf(req[h].request)
         c == StoreGet(cacheData[RUNTIME_CACHE], key) IN
     req' = [req EXCEPT ![h] =
       [@ EXCEPT !.cached = c,
                 !.src = WriterOf(RUNTIME_CACHE, key),
                 !.result = SWRReturn(c, None),
                 !.netCalls = @ + 1,
                 !.pc = "fetching"]]
  /\ UNCHANGED <<cacheData, lifecycleVars, lastWriter, push, click>>

\* A catch that gives the failure on when there is no cached response.
SWRFetchedRethrow(cached, out) ==
  IF out # NetFail THEN out
  ELSE IF cached # None THEN cached ELSE Rejected

\* What fetchPromise resolves to: the network response, or, from the catch,
\* cachedResponse (undefined when there was none).
SWRFetched(cached, out) ==
  IF out # NetFail THEN out
  ELSE IF cached # None THEN cached ELSE Undefined

\* Stale-while-revalidate, fetch(request) settles.
SWRNet(h, out) ==
  /\ req[h].cls = "html"
  /\ req[h].pc = "fetching"
  /\ out \in NetOutcomes(req[h].request)
  /\ req' = [req EXCEPT ![h] =
       [@ EXCEPT !.net = out,
                 !.result = SWRReturn(req[h].cached, SWRFetched(req[h].cached, out)),
                 !.put = IF out # NetFail /\ ShouldCacheRuntime(out)
                         THEN "pending" ELSE "none",
                 !.pc = "done"]]
  /\ UNCHANGED <<cacheNames, cacheData, lifecycleVars, lastWriter, push, click>>

\* Network-first, caches.open(RUNTIME_CACHE) settles: fetch(request) is called.
NFOpen(h) ==
  /\ req[h].cls = "api"
  /\ req[h].pc = "open"
  /\ cacheNames' = OpenedNames(cacheNames, RUNTIME_CACHE)
  /\ req' = [req EXCEPT ![h] = [@ EXCEPT !.netCalls = @ + 1, !.pc = "fetching"]]
  /\ UNCHANGED <<cacheData, lifecycleVars, lastWriter, push, click>>

\* Network-first, fetch(request) settles: the response is returned (and, when
\* 200, cache.put is started, not awaited); a failure goes to cache.match.
NFNet(h, out) ==
  /\ req[h].cls = "api"
  /\ req[h].pc = "fetching"
  /\ out \in NetOutcomes(req[h].request)
  /\ req' = [req EXCEPT ![h] =
       IF out = NetFail
       THEN [@ EXCEPT !.net = out, !.pc = "fallback"]
       ELSE [@ EXCEPT !.net = out, !.result = out, !.pc = "done",
                      !.put = IF ShouldCacheRuntime(out) THEN "pending" ELSE "none"]]
  /\ UNCHANGED <<cacheNames, cacheData, lifecycleVars, lastWriter, push, click>>

NFFallbackResult500(cached) ==
  IF cached # None THEN cached
  ELSE Response(500, "default", "application/json",
                "{\"error\":\"Network unavailable and no cached data\"}")

NFFallbackResultNoSynth(cached) == IF cached # None THEN cached ELSE Undefined

\* return cachedResponse || new Response(..., {status: 503, ...})
NFFallbackResult(cached) == IF cached # None THEN cached ELSE Synth503

\* Network-first, cache.match(request) of the catch settles.
NFFallback(h) ==
  /\ req[h].cls = "api"
  /\ req[h].pc = "fallback"
  /\ LET key == KeyOf(req[h].request)
         c == StoreGet(cacheData[RUNTIME_CACHE], key) IN
     req' = [req EXCEPT ![h] =
       [@ EXCEPT !.cached = c,
                 !.src = WriterOf(RUNTIME_CACHE, key),
                 !.result = NFFallbackResult(c),
                 !.pc = "done"]]
  /\ UNCHANGED <<cacheNames, cacheData, lifecycleVars, lastWriter, push, click>>

\* Default branch, fetch(request) settles: the response, or caches.match.
DefNet(h, out) ==
  /\ req[h].cls = "other"
  /\ req[h].pc = "fetching"
  /\ out \in NetOutcomes(req[h].request)
  /\ req' = [req EXCEPT ![h] =
       IF out = NetFail
       THEN [@ EXCEPT !.net = out, !.pc = "fallback"]
       ELSE [@ EXCEPT !.net = out, !.result = out, !.pc = "done"]]
  /\ UNCHANGED <<cacheNames, cacheData, lifecycleVars, lastWriter, push, click>>

\* A catch that gives the failure on when the lookup misses.
DefFallbackResultRethrow(cached) == IF cached # None THEN cached ELSE Rejected

\* .catch(() => caches.match(request)): what the promise given to
\* respondWith resolves to, the hit or (a miss) undefined.
DefFallbackResult(cached) == IF cached # None THEN cached ELSE Undefined

\* Default branch, caches.match(request) of the catch settles: the promise
\* given to respondWith resolves to the hit, or to undefined.
DefFallback(h) ==
  /\ req[h].cls = "other"
  /\ req[h].pc = "fallback"
  /\ LET c == CachesMatch(cacheNames, cacheData, KeyOf(req[h].request)) IN
     req' = [req EXCEPT ![h] =
       [@ EXCEPT !.cached = c,
                 !.result = DefFallbackResult(c),
                 !.pc = "done"]]
  /\ UNCHANGED <<cacheNames, cacheData, lifecycleVars, lastWriter, push, click>>

\* A handler's cache.put settles: stored (ok) or failed.  Cache-first opens
\* the static store first (creating it when missing); the other two write
\* through the runtime store they opened.
PutSettle(h, ok) ==
  /\ req[h].put = "pending"
  /\ LET store == PutStore(req[h].cls)
         key == KeyOf(req[h].request) IN
     IF ok
     THEN /\ cacheNames' = OpenedNames(cacheNames, store)
          /\ cacheData' = [cacheData EXCEPT ![store] = StorePut(@, key, req[h].net)]
          /\ lastWriter' = [lastWriter EXCEPT ![store] = StorePut(@, key, h)]
          /\ req' = [req EXCEPT ![h] =
               [@ EXCEPT !.put = "stored",
                         !.replaced = StoreGet(cacheData[store], key)]]
     ELSE /\ req' = [req EXCEPT ![h].put = "failed"]
          /\ UNCHANGED <<cacheNames, cacheData, lastWriter>>
  /\ UNCHANGED <<lifecycleVars, push, click>>

\* ------------------------------------------------------------------- push
\* Push events dispatched in one behaviour.
MaxPush == 2

\* JavaScript values, as far as the decoder looks at them.
Undef == [t |-> "undefined"]
Null == [t |-> "null"]
Str(s) == [t |-> "string", v |-> s]
Num(n) == [t |-> "number", v |-> n]
Bool(b) == [t |-> "boolean", v |-> b]
Arr == [t |-> "array"]
\* An object: v maps its own property names to values.
Obj(fields) == [t |-> "object", v |-> fields]

\* x is truthy: not undefined, null, "", 0 or false.
Truthy(x) ==
  /\ x.t \notin {"undefined", "null"}
  /\ ~(x.t = "string" /\ x.v = "")
  /\ ~(x.t = "number" /\ x.v = 0)
  /\ ~(x.t = "boolean" /\ x.v = FALSE)

\* typeof x === 'object'
TypeofObject(x) == x.t \in {"object", "array", "null"}

\* x.name: undefined when x has no such property.
Field(x, name) ==
  IF x.t = "object" /\ name \in DOMAIN x.v THEN x.v[name] ELSE Undef

\* a || b
Or(a, b) == IF Truthy(a) THEN a ELSE b

EmptyObj == Obj([k \in {} |-> Undef])

\* let notificationData = { title: 'New Notification', ... }
DefaultNotification ==
  [title |-> Str("New Notification"),
   body |-> Str("You have a new notification"),
   icon |-> Str("/logo.svg"),
   badge |-> Str("/logo.svg"),
   data |-> EmptyObj]

\* A merge that takes every property the object has, whatever its value.
MergeFieldsPresent(parsed, nd) ==
  [f \in DOMAIN nd |->
     IF parsed.t = "object" /\ f \in DOMAIN parsed.v THEN parsed.v[f] ELSE nd[f]]

\* notificationData = { title: parsed.title || notificationData.title, ...,
\*                      data: parsed.data || {} }
MergeFields(parsed, nd) ==
  [title |-> Or(Field(parsed, "title"), nd.title),
   body |-> Or(Field(parsed, "body"), nd.body),
   icon |-> Or(Field(parsed, "icon"), nd.icon),
   badge |-> Or(Field(parsed, "badge"), nd.badge),
   data |-> Or(Field(parsed, "data"), EmptyObj)]

\* A decoder that takes a JSON string as the body.
MergeOrStringBody(parsed, nd) ==
  IF Truthy(parsed) /\ TypeofObject(parsed) THEN MergeFields(parsed, nd)
  ELSE IF parsed.t = "string" THEN [nd EXCEPT !.body = parsed]
  ELSE nd

\* if (parsed && typeof parsed === 'object') notificationData = {...}
MergeIfObject(parsed, nd) ==
  IF Truthy(parsed) /\ TypeofObject(parsed) THEN MergeFields(parsed, nd) ELSE nd

\* A push text is either the JSON serialization of a value or a string that
\* is not JSON.  JSON.parse gives the value back, or throws.
Throws == [throws |-> TRUE]
PlainText(s) == [kind |-> "plain", chars |-> s]
JsonText(v) == [kind |-> "json", value |-> v]
JSONParse(text) == IF text.kind = "json" THEN text.value ELSE Throws

\* The strings that are empty after trim(), and the falsy string.
BlankChars == {"", "   "}
TextTruthy(text) == ~(text.kind = "plain" /\ text.chars = "")
\* The test without the trim().
TrimTruthyNoTrim(text) == ~(text.kind = "plain" /\ text.chars = "")
TrimTruthy(text) == ~(text.kind = "plain" /\ text.chars \in BlankChars)

\* The text that is not JSON, as a JavaScript string (notificationData.body = rawData).
TextValue(text) == Str(text.chars)

\* What event.data can be: absent, or data whose text() returns a text or
\* throws and whose json() returns a value or throws.
NoData == [kind |-> "none"]
PushData(text, json) == [kind |-> "data", text |-> text, json |-> json]

\* push listener, lines 159-212: the decoder.
Decode(data) ==
  IF data = NoData THEN DefaultNotification
  ELSE IF data.text = Throws
  THEN IF data.json = Throws THEN DefaultNotification
       ELSE MergeIfObject(data.json, DefaultNotification)
  ELSE LET rawData == data.text IN
       IF ~TextTruthy(rawData) THEN DefaultNotification
       ELSE LET parsed == JSONParse(rawData) IN
            IF parsed # Throws THEN MergeIfObject(parsed, DefaultNotification)
            ELSE IF TrimTruthy(rawData)
                 THEN [DefaultNotification EXCEPT !.body = TextValue(rawData)]
                 ELSE DefaultNotification

\* Date.now(): a reading of the clock.
Now == Num(1)

\* The options of the first showNotification call; an absent option is Undef.
NotificationOptions(nd) ==
  [body |-> nd.body,
   data |-> nd.data,
   tag |-> "notification",
   requireInteraction |-> FALSE,
   vibrate |-> <<200, 100, 200>>,
   timestamp |-> Now,
   icon |-> IF Truthy(nd.icon) THEN nd.icon ELSE Undef,
   badge |-> IF Truthy(nd.badge) THEN nd.badge ELSE Undef]

\* Retry options with a tag of their own.
RetryOptionsOwnTag(nd) ==
  [body |-> nd.body,
   data |-> nd.data,
   tag |-> "notification-retry",
   requireInteraction |-> FALSE,
   vibrate |-> Undef,
   timestamp |-> Undef,
   icon |-> Undef,
   badge |-> Undef]

\* The options of the retry.
RetryOptions(nd) ==
  [body |-> nd.body,
   data |-> nd.data,
   tag |-> "notification",
   requireInteraction |-> FALSE,
   vibrate |-> Undef,
   timestamp |-> Undef,
   icon |-> Undef,
   badge |-> Undef]

\* A retry without the second catch: its rejection would reject the chain.
RetryChainNoCatch(ok) == IF ok THEN "fulfilled" ELSE "rejected"

\* How the promise chain given to waitUntil settles when the retry settles:
\* the second catch logs the error and returns.
RetryChain(ok) == "fulfilled"

\* The push messages of this model.
JsonTitles == {Undef, Str(""), Str("Sale"), Num(42)}
JsonBodies == {Undef, Str("20% off"), Null}
JsonIcons == {Undef, Str("/sale.png"), Str("")}
JsonBadges == {Undef, Str("/badge.png")}
JsonDatas == {Undef, Obj([promo |-> Str("X")]), Str("x")}

\* The object with exactly the properties that are not Undef.
ObjOf(title, body, icon, badge, data) ==
  LET all == [title |-> title, body |-> body, icon |-> icon, badge |-> badge,
              data |-> data]
  IN Obj([k \in {f \in DOMAIN all : all[f] # Undef} |-> all[k]])

JsonObjects ==
  {ObjOf(t, b, i, g, d) :
     t \in JsonTitles, b \in JsonBodies, i \in JsonIcons, g \in JsonBadges,
     d \in JsonDatas}
JsonValues == JsonObjects \cup {Num(42), Num(0), Null, Bool(TRUE), Str("hi"), Arr}
PushTexts ==
  {PlainText(c) : c \in {"", "   ", "hello", " hi "}} \cup {JsonText(v) : v \in JsonValues}
PushInputs ==
  {NoData}
    \cup {PushData(Throws, j) : j \in JsonValues \cup {Throws}}
    \cup {PushData(t, Throws) : t \in PushTexts}

PushIdle ==
  [pc |-> "idle", count |-> 0, data |-> NoData,
   payload |-> DefaultNotification, calls |-> <<>>, settled |-> <<>>,
   waitUntil |-> "none", shown |-> <<>>]

fetchVars == <<cacheNames, cacheData, lifecycleVars, req, lastWriter>>

\* push listener, synchronous part: decode event.data, build the options,
\* call showNotification and give the promise chain to event.waitUntil.
PushEvent(data) ==
  /\ push.pc \in {"idle", "done"}
  /\ push.count < MaxPush
  /\ LET nd == Decode(data) IN
     push' = [push EXCEPT !.pc = "showing",
                          !.count = @ + 1,
                          !.data = data,
                          !.payload = nd,
                          !.calls = <<[title |-> nd.title,
                                       options |-> NotificationOptions(nd)]>>,
                          !.settled = <<>>,
                          !.waitUntil = "pending"]
  /\ UNCHANGED <<fetchVars, click>>

\* The first showNotification settles: shown, or (rejected) the first catch
\* calls showNotification again with the reduced options.
ShowSettle(ok) ==
  /\ push.pc = "showing"
  /\ push' =
       IF ok
       THEN [push EXCEPT !.pc = "done", !.waitUntil = "fulfilled",
                         !.settled = Append(@, TRUE),
                         !.shown = Append(@, push.calls[1].options.tag)]
       ELSE [push EXCEPT !.pc = "retrying",
                         !.settled = Append(@, FALSE),
                         !.calls = Append(@, [title |-> push.payload.title,
                                              options |-> RetryOptions(push.payload)])]
  /\ UNCHANGED <<fetchVars, click>>

\* The retry settles: shown, or (rejected) the second catch logs the error;
\* the chain is fulfilled either way.
RetrySettle(ok) ==
  /\ push.pc = "retrying"
  /\ push' = [push EXCEPT !.pc = "done", !.waitUntil = RetryChain(ok),
                          !.settled = Append(@, ok),
                          !.shown = IF ok THEN Append(@, push.calls[2].options.tag)
                                    ELSE @]
  /\ UNCHANGED <<fetchVars, click>>


\* ------------------------------------------------------ notificationclick
\* Bounds: notificationclick events, and window clients open at a click.
MaxClick == 2
MaxClients == 2

\* client.url, the serialization of the client's URL, as its parts.
Href(url) ==
  <<url.protocol, "//", url.origin, url.path.dir, url.path.stem, url.path.ext>>
\* The parts that have a '/' in them.
SlashParts == {"//", "/", "/api/"}

\* client.url.includes('/')
IncludesSlash(url) == \E i \in DOMAIN Href(url) : Href(url)[i] \in SlashParts

\* client.url === self.location.origin + '/'
IsOriginRoot(url) == url = SelfUrl(RootPath)

\* The test of the loop, line 262; client.url is a non-empty string for
\* every window client.
ClientMatches(url) == IncludesSlash(url) \/ IsOriginRoot(url)

\* The index of the first client of the list the loop returns on, 0 when it
\* runs to the end ('focus' in client holds for every window client).
FirstMatch(clientList) ==
  LET hits == {i \in 1..Len(clientList) : ClientMatches(clientList[i])}
  IN IF hits = {} THEN 0 ELSE CHOOSE i \in hits : \A j \in hits : i <= j

\* What clients.matchAll({type: 'window', includeUncontrolled: true}) can
\* list: the windows open at this origin, at the root and at other paths.
MenuPath == Path("/", "menu", "")
ClientUrls == {SelfUrl(RootPath), SelfUrl(MenuPath), SelfUrl(IndexPath)}
ClientLists == UNION {[1..n -> ClientUrls] : n \in 0..MaxClients}

ClickIdle ==
  [pc |-> "idle", count |-> 0, clients |-> <<>>, closed |-> FALSE,
   listed |-> FALSE, focused |-> 0, opened |-> <<>>, error |-> "none",
   waitUntil |-> "none"]

\* notificationclick listener, synchronous part: close the notification,
\* call clients.matchAll and give the promise chain to event.waitUntil.
ClickEvent(clientList) ==
  /\ click.pc \in {"idle", "done"}
  /\ click.count < MaxClick
  /\ click' = [ClickIdle EXCEPT !.pc = "matching",
                                !.count = click.count + 1,
                                !.clients = clientList,
                                !.closed = TRUE,
                                !.waitUntil = "pending"]
  /\ UNCHANGED <<fetchVars, push>>

\* matchAll settles: the loop focuses the first client that passes the test,
\* or, after the loop, openWindow('/') is called; a rejection is logged by
\* the catch.
MatchAllSettle(ok) ==
  /\ click.pc = "matching"
  /\ click' =
       IF ~ok
       THEN [click EXCEPT !.pc = "done", !.error = "matchAll",
                          !.waitUntil = "fulfilled"]
       ELSE LET i == FirstMatch(click.clients) IN
            IF i # 0
            THEN [click EXCEPT !.pc = "focusing", !.listed = TRUE, !.focused = i]
            ELSE [click EXCEPT !.pc = "opening", !.listed = TRUE,
                               !.opened = <<RootPath>>]
  /\ UNCHANGED <<fetchVars, push>>

\* client.focus() settles; a rejection is logged by the catch.
FocusSettle(ok) ==
  /\ click.pc = "focusing"
  /\ click' = [click EXCEPT !.pc = "done",
                            !.error = IF ok THEN "none" ELSE "focus",
                            !.waitUntil = "fulfilled"]
  /\ UNCHANGED <<fetchVars, push>>

\* clients.openWindow('/') settles; a rejection is logged by the catch.
OpenSettle(ok) ==
  /\ click.pc = "opening"
  /\ click' = [click EXCEPT !.pc = "done",
                            !.error = IF ok THEN "none" ELSE "openWindow",
                            !.waitUntil = "fulfilled"]
  /\ UNCHANGED <<fetchVars, push>>

\* --------------------------------------------------------- specifications
\* What an earlier deployment left in a store of the given name.
OldContent(n) ==
  IF n \in {OldStatic, CACHE_NAME} THEN [k \in AssetKeys |-> OldEntry]
  ELSE [k \in {KeyOf(ReqApi)} |-> OldEntry]

NameOrder == <<OldStatic, OldRuntime, CACHE_NAME, RUNTIME_CACHE>>

NoHandlers ==
  /\ req = [h \in Handlers |-> IdleHandler]
  /\ lastWriter = [n \in AllNames |-> EmptyStore]
  /\ push = PushIdle
  /\ click = ClickIdle

\* Lifecycle.  The worker script has been evaluated (listeners registered)
\* and its first version is about to install; any set of stores may exist.
Init ==
  /\ \E old \in SUBSET AllNames :
       /\ cacheNames = SelectSeq(NameOrder, LAMBDA n : n \in old)
       /\ cacheData = [n \in AllNames |-> IF n \in old THEN OldContent(n) ELSE EmptyStore]
  /\ round = 1
  /\ swState = "installing"
  /\ installPc = "idle"
  /\ installFetch = {}
  /\ skipWaiting = FALSE
  /\ actPc = "idle"
  /\ delPending = {}
  /\ delFailed = {}
  /\ actKeys = <<>>
  /\ claimed = FALSE
  /\ controller = [p \in Pages |-> 0]
  /\ NoHandlers

Next ==
  \/ InstallOpen
  \/ \E failed \in SUBSET AssetIdx : InstallAddAll(failed)
  \/ InstallSkipWaiting
  \/ ActivateEvent
  \/ ActivateKeys
  \/ \E n \in AllNames, ok \in BOOLEAN : DeleteSettle(n, ok)
  \/ ActivateClaim
  \/ ActivateReject
  \/ Update
  \/ \E p \in Pages : PageLoad(p)

Spec == Init /\ [][Next]_vars

\* The lifecycle variables of a worker that installed and activated and now
\* serves fetch events.
Serving ==
  /\ round = 1
  /\ swState = "activated"
  /\ installPc = "done"
  /\ installFetch = {}
  /\ skipWaiting = TRUE
  /\ actPc = "done"
  /\ delPending = {}
  /\ delFailed = {}
  /\ actKeys = <<CACHE_NAME>>
  /\ claimed = TRUE
  /\ controller = [p \in Pages |-> 1]

\* Runtime store.  The activated worker serves navigations and API calls;
\* the runtime store does not exist yet, or holds what an earlier session of
\* the worker wrote.
RuntimeInit ==
  /\ Serving
  /\ \E rt \in BOOLEAN :
       /\ cacheNames = IF rt THEN <<CACHE_NAME, RUNTIME_CACHE>> ELSE <<CACHE_NAME>>
       /\ cacheData = [n \in AllNames |->
            IF n = CACHE_NAME THEN AddAll(EmptyStore, {})
            ELSE IF n = RUNTIME_CACHE /\ rt THEN OldContent(n)
            ELSE EmptyStore]
  /\ NoHandlers

RuntimeNext ==
  \/ \E h \in Handlers, r \in RuntimeRequests : FetchEvent(h, r)
  \/ \E h \in Handlers : SWRMatch(h)
  \/ \E h \in Handlers, out \in AnyNetOutcome : SWRNet(h, out)
  \/ \E h \in Handlers : NFOpen(h)
  \/ \E h \in Handlers, out \in AnyNetOutcome : NFNet(h, out)
  \/ \E h \in Handlers : NFFallback(h)
  \/ \E h \in Handlers, ok \in BOOLEAN : PutSettle(h, ok)

RuntimeSpec == RuntimeInit /\ [][RuntimeNext]_vars

\* Static store.  The activated worker serves static assets and other
\* requests; the install populated the static store or (one asset fetch
\* having failed) left it empty, and the old static store is gone or (its
\* deletion having failed) still there.
StaticInit ==
  /\ Serving
  /\ \E filled \in BOOLEAN, old \in BOOLEAN :
       /\ cacheNames = IF old THEN <<OldStatic, CACHE_NAME>> ELSE <<CACHE_NAME>>
       /\ cacheData = [n \in AllNames |->
            IF n = CACHE_NAME THEN AddAll(EmptyStore, IF filled THEN {} ELSE {1})
            ELSE IF n = OldStatic /\ old THEN OldContent(n)
            ELSE EmptyStore]
  /\ NoHandlers

StaticNext ==
  \/ \E h \in Handlers, r \in StaticRequests : FetchEvent(h, r)
  \/ \E h \in Handlers : CFMatch(h)
  \/ \E h \in Handlers, out \in AnyNetOutcome : CFNet(h, out)
  \/ \E h \in Handlers, out \in AnyNetOutcome : DefNet(h, out)
  \/ \E h \in Handlers : DefFallback(h)
  \/ \E h \in Handlers, ok \in BOOLEAN : PutSettle(h, ok)

StaticSpec == StaticInit /\ [][StaticNext]_vars

\* ================================================================ claims
\* --------------------------------------------------------------- lifecycle
\* C1 (as claimed): when the fetch of exactly one of the four install assets
\* fails, the population step still ends and the static store then holds the
\* other three assets.
C1_InstallKeepsOtherThree ==
  (installPc = "populated" /\ Cardinality(installFetch) = 1) =>
    \A i \in AssetIdx \ installFetch :
      AssetKey(i) \in DOMAIN cacheData[CACHE_NAME]

\* C2 (as claimed): after a successful activation the existing store names
\* are exactly the current static and runtime names.
C2_ExactlyBothStores ==
  (swState = "activated" /\ actPc = "done") => Names = Current

\* C2 (amended): after a successful activation no name other than the two
\* current ones exists, and the existing names are exactly the current names
\* that existed when the activation listed them: activation deletes the
\* stale stores and creates none.
C2_OnlyCurrentStores ==
  (swState = "activated" /\ actPc = "done") =>
    /\ Names \subseteq Current
    /\ Names = SeqToSet(actKeys) \cap Current
    /\ CACHE_NAME \in Names

\* A successful activation that found both old stores and no runtime store:
\* the old ones are gone and the runtime store still does not exist.
C2_Witness ==
  /\ swState = "activated"
  /\ actPc = "done"
  /\ OldNames \subseteq SeqToSet(actKeys)
  /\ Names = {CACHE_NAME}

ActivateStep ==
  \/ ActivateEvent
  \/ ActivateKeys
  \/ \E n \in AllNames, ok \in BOOLEAN : DeleteSettle(n, ok)
  \/ ActivateClaim
  \/ ActivateReject

\* C3: a step of an activation that runs when only the current static and
\* runtime stores exist starts no deletion and leaves the set of stores and
\* all their entries unchanged.
C3_ActivateIdempotent ==
  [][(ActivateStep /\ Names \subseteq Current) =>
       /\ cacheNames' = cacheNames
       /\ cacheData' = cacheData
       /\ delPending' = {}]_vars

\* The second version's activation has run to its end with exactly the two
\* current stores listed, both still there with the static entries.
C3_Witness ==
  /\ round = 2
  /\ actPc = "done"
  /\ SeqToSet(actKeys) = Current
  /\ Names = Current
  /\ DOMAIN cacheData[CACHE_NAME] = AssetKeys

\* ------------------------------------------------------------ cache-first
HoldersOf(key) == {n \in Names : key \in DOMAIN cacheData[n]}

\* C4: a cache-first lookup for a key the static store holds resolves the
\* handler to a cached entry of that key (the static store's own when no
\* older store holds the key) without calling fetch, and a handler that
\* resolved from the cache has made no network fetch.
C4_CacheFirstHit ==
  /\ [][\A h \in Handlers :
          (CFMatch(h) /\ KeyOf(req[h].request) \in DOMAIN cacheData[CACHE_NAME]) =>
            LET key == KeyOf(req[h].request) IN
            /\ req'[h].pc = "done"
            /\ req'[h].result \in {cacheData[n][key] : n \in HoldersOf(key)}
            /\ (HoldersOf(key) = {CACHE_NAME} =>
                  req'[h].result = cacheData[CACHE_NAME][key])
            /\ req'[h].netCalls = 0]_vars
  /\ [](\A h \in Handlers :
          (req[h].cls = "static" /\ req[h].cached # None) =>
            /\ req[h].pc = "done"
            /\ req[h].result = req[h].cached
            /\ req[h].netCalls = 0
            /\ req[h].put = "none")

\* A static request answered from the populated static store, with no
\* network fetch.
C4_Witness ==
  \E h \in Handlers :
    /\ req[h].request = ReqLogo
    /\ req[h].pc = "done"
    /\ req[h].result = Response(200, "basic", "server", InstallBody)
    /\ req[h].netCalls = 0

\* ------------------------------------------------- stale-while-revalidate
SameKey(h1, h2) == KeyOf(req[h1].request) = KeyOf(req[h2].request)

\* C5 (as claimed): a navigation that found A cached and whose network fetch
\* succeeded with status 200 and result B resolved to A, and a navigation
\* for the same key dispatched after that fetch settled resolves to B.
C5_NextRequestGetsFresh ==
  \A h1 \in Handlers, h2 \in Handlers :
    ( /\ req[h1].cls = "html" /\ req[h2].cls = "html"
      /\ req[h1].cached # None
      /\ req[h1].pc = "done"
      /\ IsResponse(req[h1].net) /\ req[h1].net.status = 200
      /\ h1 \in req[h2].after
      /\ SameKey(h1, h2)
      /\ Responded(h2) ) =>
        /\ req[h1].result = req[h1].cached
        /\ req[h2].result = req[h1].net

\* C5 (amended): a navigation that finds A cached resolves to A, whatever
\* the network fetch does; and a navigation whose lookup finds the write of
\* an earlier revalidation as the latest one to its key resolves to the
\* response B that revalidation fetched.
C5_StaleThenFresh ==
  /\ \A h \in Handlers :
       (req[h].cls = "html" /\ req[h].cached # None) =>
         req[h].result = req[h].cached
  /\ \A h1 \in Handlers, h2 \in Handlers :
       (req[h1].cls = "html" /\ req[h2].cls = "html" /\ req[h2].src = h1) =>
         /\ req[h1].put = "stored"
         /\ req[h1].net.status = 200
         /\ req[h2].result = req[h1].net

\* The first navigation found the old entry and resolved to it while its
\* fetch brought B, which was stored; the second one resolved to B.
C5_Witness ==
  \E h1 \in Handlers, h2 \in Handlers :
    /\ req[h1].request = ReqPage /\ req[h2].request = ReqPage
    /\ req[h1].cached = OldEntry
    /\ req[h1].result = OldEntry
    /\ req[h1].net = Response(200, "basic", "server", "B")
    /\ req[h2].src = h1
    /\ req[h2].result = req[h1].net

\* ---------------------------------------------------------- network-first
\* C6 (as claimed): once a network-first fetch has succeeded and its write
\* has settled, no later read of that key returns the value cached before.
C6_NoOldReadAfterSuccess ==
  \A h \in Handlers, h2 \in Handlers :
    ( /\ req[h].cls = "api"
      /\ IsResponse(req[h].net)
      /\ req[h].put # "pending"
      /\ h \in req[h2].after
      /\ SameKey(h, h2)
      /\ req[h2].cached # None ) =>
        req[h2].src # 0

\* C6 (amended): a network-first fetch starts a cache write exactly when it
\* succeeds with status 200; when that write is stored the key's entry is
\* the fresh response whole, and a later read that finds this write as the
\* latest to the key returns the fresh response, not the old one.
C6_OverwriteWhenStored ==
  \A h \in Handlers :
    (req[h].cls = "api" /\ IsResponse(req[h].net)) =>
      /\ (req[h].put # "none") <=> (req[h].net.status = 200)
      /\ (WriterOf(RUNTIME_CACHE, KeyOf(req[h].request)) = h =>
            StoreGet(cacheData[RUNTIME_CACHE], KeyOf(req[h].request)) = req[h].net)
      /\ \A h2 \in Handlers :
           req[h2].src = h =>
             /\ req[h2].cached = req[h].net
             /\ req[h2].result = req[h].net

\* A 200 response replaced the old entry, and a later call whose network
\* failed fell back to the fresh response.
C6_Witness ==
  \E h \in Handlers, h2 \in Handlers :
    /\ req[h].request = ReqApi /\ req[h2].request = ReqApi
    /\ req[h].net = Response(200, "basic", "server", "A")
    /\ req[h].replaced = OldEntry
    /\ req[h2].net = NetFail
    /\ req[h2].src = h
    /\ req[h2].result = req[h].net

NFStep(h) ==
  \/ NFOpen(h)
  \/ \E out \in AnyNetOutcome : NFNet(h, out)
  \/ NFFallback(h)

\* C7: when the network fetch of a network-first handler fails, the handler
\* resolves to the runtime store's entry for the key if there is one, and
\* otherwise to the synthesized response: status 503, JSON content type,
\* body {"error":"Network unavailable and no cached data"}.
C7_FallbackOr503 ==
  /\ [][\A h \in Handlers :
          NFFallback(h) =>
            LET key == KeyOf(req[h].request) IN
            /\ req[h].net = NetFail
            /\ req'[h].pc = "done"
            /\ req'[h].result =
                 IF key \in DOMAIN cacheData[RUNTIME_CACHE]
                 THEN cacheData[RUNTIME_CACHE][key]
                 ELSE [status |-> 503, type |-> "default",
                       ctype |-> "application/json",
                       body |-> "{\"error\":\"Network unavailable and no cached data\"}"]]_vars
  /\ [](\A h \in Handlers :
          (req[h].cls = "api" /\ req[h].net = NetFail /\ req[h].pc = "done") =>
            /\ req[h].put = "none"
            /\ (req[h].cached # None => req[h].result = req[h].cached)
            /\ (req[h].cached = None => req[h].result.status = 503))

\* One failed call fell back to the cached entry, another had none and got
\* the 503.
C7_Witness ==
  \E h \in Handlers, h2 \in Handlers :
    /\ req[h].cls = "api" /\ req[h].net = NetFail
    /\ req[h].result = OldEntry
    /\ req[h2].cls = "api" /\ req[h2].net = NetFail
    /\ req[h2].cached = None
    /\ req[h2].result = Synth503

C9_OnlyBasic200Stored ==
  \A n \in Current : \A k \in DOMAIN cacheData[n] :
    cacheData[n][k].status = 200 /\ cacheData[n][k].type = "basic"

\* Push.  The activated worker receives push messages.
PushInit ==
  /\ Serving
  /\ cacheNames = <<CACHE_NAME>>
  /\ cacheData = [n \in AllNames |->
       IF n = CACHE_NAME THEN AddAll(EmptyStore, {}) ELSE EmptyStore]
  /\ NoHandlers

PushNext ==
  \/ \E data \in PushInputs : PushEvent(data)
  \/ \E ok \in BOOLEAN : ShowSettle(ok)
  \/ \E ok \in BOOLEAN : RetrySettle(ok)

PushSpec == PushInit /\ [][PushNext]_vars

\* ------------------------------------------------------------------- push
IsNonEmptyString(x) == x.t = "string" /\ x # Str("")

\* C10 (as claimed): for every push input the decoded payload has a
\* non-empty string title and a non-empty string body, and icon, badge and
\* data all have values.
C10_DecoderTotal ==
  push.pc # "idle" =>
    /\ IsNonEmptyString(push.payload.title)
    /\ IsNonEmptyString(push.payload.body)
    /\ push.payload.icon # Undef
    /\ push.payload.badge # Undef
    /\ push.payload.data # Undef

\* The values for which a || b gives b.
FalsyValues == {Undef, Null, Str(""), Num(0), Bool(FALSE)}
PayloadFields == {"title", "body", "icon", "badge", "data"}

\* The push text of the current event parsed to a JSON object.
TextIsObject ==
  /\ push.pc # "idle"
  /\ push.data # NoData
  /\ push.data.text # Throws
  /\ push.data.text.kind = "json"
  /\ push.data.text.value.t = "object"

\* C11 (as claimed): when the push text parses to a JSON object, each of
\* title, body, icon, badge and data that is present in the object takes the
\* object's value and each absent field keeps its default.
C11_PresentFieldsMerged ==
  TextIsObject =>
    LET o == push.data.text.value.v IN
    \A f \in PayloadFields :
      push.payload[f] = IF f \in DOMAIN o THEN o[f] ELSE DefaultNotification[f]

\* C11 (amended): when the push text parses to a JSON object, each of title,
\* body, icon, badge and data whose value in the object is truthy takes that
\* value; each field that is absent or falsy ("", 0, null, false) keeps its
\* default.
C11_TruthyFieldsMerged ==
  TextIsObject =>
    LET o == push.data.text.value.v IN
    \A f \in PayloadFields :
      push.payload[f] = IF f \in DOMAIN o /\ o[f] \notin FalsyValues
                        THEN o[f] ELSE DefaultNotification[f]

\* The message {title: 'Sale', body: '20% off', data: {promo: 'X'}} decoded:
\* those three values with the default icon and badge.
C11_Witness ==
  /\ TextIsObject
  /\ push.data.text.value =
       Obj([title |-> Str("Sale"), body |-> Str("20% off"),
            data |-> Obj([promo |-> Str("X")])])
  /\ push.payload =
       [title |-> Str("Sale"), body |-> Str("20% off"),
        icon |-> Str("/logo.svg"), badge |-> Str("/logo.svg"),
        data |-> Obj([promo |-> Str("X")])]

\* C12: when the push text is not valid JSON, the payload is the defaults
\* with the entire text as body if the text is non-empty after trimming, and
\* the unchanged defaults if it is empty after trimming.
C12_PlainTextBody ==
  (/\ push.pc # "idle"
   /\ push.data # NoData
   /\ push.data.text # Throws
   /\ push.data.text.kind = "plain") =>
    LET c == push.data.text.chars IN
    push.payload = IF c \in {"", "   "} THEN DefaultNotification
                   ELSE [DefaultNotification EXCEPT !.body = Str(c)]

\* A text with blanks around it became the body, blanks included.
C12_Witness ==
  /\ push.pc # "idle"
  /\ push.data = PushData(PlainText(" hi "), Throws)
  /\ push.payload.body = Str(" hi ")
  /\ push.payload.title = Str("New Notification")

\* C13: every display attempt of every push event, the first attempt and the
\* retry alike, uses the same constant tag, so any two notifications
\* displayed in succession share one tag value.
C13_SameTag ==
  /\ \A i \in 1..Len(push.calls) : push.calls[i].options.tag = "notification"
  /\ \A i, j \in 1..Len(push.shown) : push.shown[i] = push.shown[j]

\* Two notifications were displayed, the second one by a retry.
C13_Witness ==
  /\ push.pc = "done"
  /\ Len(push.shown) = 2
  /\ push.settled = <<FALSE, TRUE>>

\* C14 (as claimed): the first attempt's options contain icon (resp. badge)
\* only when the decoded payload's icon (resp. badge) differs from the
\* default, and a push with absent data is displayed without icon and badge
\* options.
C14_IconOnlyWhenNotDefault ==
  push.pc # "idle" =>
    LET o == push.calls[1].options IN
    /\ o.icon # Undef => push.payload.icon # DefaultNotification.icon
    /\ o.badge # Undef => push.payload.badge # DefaultNotification.badge
    /\ push.data = NoData => (o.icon = Undef /\ o.badge = Undef)

\* C15: each push event makes one display attempt; if and only if it fails,
\* exactly one retry is made, with body, data and tag and without icon, badge
\* or vibration; the work registered with the event never rejects, also when
\* both attempts fail; no push event makes more than two display attempts.
C15_OneRetryNeverRejects ==
  push.pc # "idle" =>
    /\ Len(push.calls) \in {1, 2}
    /\ Len(push.calls) = 2 <=> (Len(push.settled) >= 1 /\ ~push.settled[1])
    /\ Len(push.calls) = 2 =>
         LET o == push.calls[2].options IN
         /\ o.body = push.payload.body
         /\ o.data = push.payload.data
         /\ o.tag = "notification"
         /\ o.icon = Undef /\ o.badge = Undef /\ o.vibrate = Undef
    /\ push.waitUntil \in {"pending", "fulfilled"}
    /\ push.waitUntil = "fulfilled" <=> Len(push.settled) = Len(push.calls)

\* Both attempts failed and the registered work is fulfilled.
C15_Witness ==
  /\ push.pc = "done"
  /\ push.settled = <<FALSE, FALSE>>
  /\ Len(push.calls) = 2
  /\ push.waitUntil = "fulfilled"

\* Clicks.  The activated worker receives notificationclick events.
ClickInit ==
  /\ Serving
  /\ cacheNames = <<CACHE_NAME>>
  /\ cacheData = [n \in AllNames |->
       IF n = CACHE_NAME THEN AddAll(EmptyStore, {}) ELSE EmptyStore]
  /\ NoHandlers

ClickNext ==
  \/ \E clientList \in ClientLists : ClickEvent(clientList)
  \/ \E ok \in BOOLEAN : MatchAllSettle(ok)
  \/ \E ok \in BOOLEAN : FocusSettle(ok)
  \/ \E ok \in BOOLEAN : OpenSettle(ok)

ClickSpec == ClickInit /\ [][ClickNext]_vars

\* ------------------------------------------------------------------ click
\* The listed clients that are at the app's origin root.
RootClients ==
  {i \in 1..Len(click.clients) : click.clients[i] = SelfUrl(RootPath)}

\* C16 (as claimed): when a notificationclick arrives and an open window
\* client is at the app's origin root, the notification is closed, the first
\* such client is focused, and no new window is opened.
C16_FirstRootClientFocused ==
  (click.listed /\ RootClients # {}) =>
    /\ click.closed
    /\ click.focused \in RootClients
    /\ \A i \in RootClients : click.focused <= i
    /\ click.opened = <<>>

\* C17 (as claimed): a client is focused only if its URL matches the app's
\* origin root; when no open client's URL matches, also when clients are
\* open at other URLs, no client is focused and a new window is opened at
\* the root path.
C17_FocusOnlyRootElseOpen ==
  click.listed =>
    /\ click.focused # 0 => click.focused \in RootClients
    /\ RootClients = {} => (click.focused = 0 /\ click.opened = <<RootPath>>)

\* ----------------------------------------------------------- extend-until
\* C18 (as claimed): an event is not treated as handled until every
\* asynchronous operation its handler started has settled.  For a fetch
\* event, which the handler extends with respondWith only: once the promise
\* given to respondWith has settled, neither a fetch nor a cache write of
\* that handler is still in flight.
C18_HandledOnlyWhenSettled ==
  \A h \in Handlers :
    Responded(h) => (req[h].pc = "done" /\ req[h].put # "pending")

\* ---------------------------------------------------------------- install
\* C19: after the population settles, whatever was stored, the install
\* handler requests skip-waiting, so the installed worker can be activated
\* without waiting for the previous version's pages to close.
C19_InstallAlwaysSkipsWaiting ==
  /\ installPc = "populated" => ENABLED InstallSkipWaiting
  /\ installPc = "done" => skipWaiting
  /\ swState = "installed" => (skipWaiting /\ ENABLED ActivateEvent)

\* The second version is installed with nothing stored and has asked to
\* skip waiting.
C19_Witness ==
  /\ round = 2
  /\ swState = "installed"
  /\ skipWaiting
  /\ cacheData[CACHE_NAME] = EmptyStore

\* --------------------------------------------------------------- activate
\* The stale names the running activation listed.
StaleListed == SeqToSet(actKeys) \ {CACHE_NAME, RUNTIME_CACHE}

\* C20: when the deletion of one stale store fails, the deletion of every
\* other stale store name still runs: each listed stale name is in flight,
\* has failed itself, or is deleted.
C20_OtherDeletesGoOn ==
  actPc \in {"deleting", "rejected", "done"} =>
    \A n \in StaleListed :
      \/ n \in delPending /\ ENABLED DeleteSettle(n, TRUE)
      \/ n \in delFailed
      \/ n \notin SeqToSet(cacheNames)

\* The deletion of one stale store failed, activation rejected, and the
\* other stale store is deleted.
C20_Witness ==
  /\ actPc = "rejected"
  /\ delPending = {}
  /\ delFailed = {OldStatic}
  /\ OldRuntime \in StaleListed
  /\ OldRuntime \notin SeqToSet(cacheNames)

\* ---------------------------------------------------------------- rollout
\* The promise chains and platform steps of one version's lifecycle; a new
\* version and a page load are the environment's.
LifecycleStep ==
  \/ InstallOpen
  \/ \E failed \in SUBSET AssetIdx : InstallAddAll(failed)
  \/ InstallSkipWaiting
  \/ ActivateEvent
  \/ ActivateKeys
  \/ \E n \in AllNames, ok \in BOOLEAN : DeleteSettle(n, ok)
  \/ ActivateClaim
  \/ ActivateReject

\* The lifecycle with every started chain running on: a promise that can
\* settle does settle, and the platform dispatches the event that is due.
LiveSpec == Spec /\ WF_vars(LifecycleStep)

\* A stale store the running activation listed is deleted.
SomeStaleEvicted == \E n \in StaleListed : n \notin SeqToSet(cacheNames)

C30_EveryActivationClaims ==
  /\ \A r \in 1..MaxRounds :
       (round = r /\ swState = "activating") ~> (round = r /\ claimed)
  /\ [](claimed => delPending = {})

\* Router.  The activated worker, its static store populated, dispatches one
\* request of any kind to one handler.
RouterInit ==
  /\ Serving
  /\ cacheNames = <<CACHE_NAME>>
  /\ cacheData = [n \in AllNames |->
       IF n = CACHE_NAME THEN AddAll(EmptyStore, {}) ELSE EmptyStore]
  /\ NoHandlers

RouterNext ==
  \/ \E r \in RouterRequests : FetchEvent(1, r)
  \/ CFMatch(1)
  \/ \E out \in AnyNetOutcome : CFNet(1, out)
  \/ SWRMatch(1)
  \/ \E out \in AnyNetOutcome : SWRNet(1, out)
  \/ NFOpen(1)
  \/ \E out \in AnyNetOutcome : NFNet(1, out)
  \/ NFFallback(1)
  \/ \E out \in AnyNetOutcome : DefNet(1, out)
  \/ DefFallback(1)
  \/ \E ok \in BOOLEAN : PutSettle(1, ok)

RouterSpec == RouterInit /\ [][RouterNext]_vars

\* ----------------------------------------------------------------- router
\* The steps of each strategy.
CacheFirstStep(h) == CFMatch(h) \/ \E out \in AnyNetOutcome : CFNet(h, out)
RevalidateStep(h) == SWRMatch(h) \/ \E out \in AnyNetOutcome : SWRNet(h, out)
PassthroughStep(h) == DefFallback(h) \/ \E out \in AnyNetOutcome : DefNet(h, out)

\* C22: every GET http(s) request is handled by exactly one of cache-first,
\* stale-while-revalidate, network-first and default passthrough, the static
\* test coming before the navigation and API tests; a request that is not
\* GET or not http(s) is not intercepted: its handler never responds, calls
\* no fetch and makes no step.
C22_RouterExclusiveAndOrdered ==
  /\ [](\A h \in Handlers : req[h].pc # "idle" =>
          LET r == req[h].request
              static == \/ r.url.path.ext \in StaticExts
                        \/ r.url.path \in {RootPath, IndexPath}
              api == r.url.path.dir = "/api/"
          IN IF r.method # "GET" \/ r.url.protocol \notin {"http:", "https:"}
             THEN /\ req[h].pc = "skipped"
                  /\ req[h].result = None
                  /\ req[h].netCalls = 0
                  /\ req[h].put = "none"
             ELSE /\ req[h].pc # "skipped"
                  /\ req[h].cls =
                       IF static THEN "static"
                       ELSE IF r.acceptHtml THEN "html"
                       ELSE IF api THEN "api"
                       ELSE "other")
  /\ [][\A h \in Handlers :
          /\ CacheFirstStep(h) => req[h].cls = "static"
          /\ RevalidateStep(h) => req[h].cls = "html"
          /\ NFStep(h) => req[h].cls = "api"
          /\ PassthroughStep(h) => req[h].cls = "other"
          /\ req[h].pc = "skipped" => req'[h] = req[h]]_vars

\* A navigation to an image under the API prefix was served cache-first: its
\* response is in the static store and the runtime store was not opened.
C22_Witness ==
  /\ req[1].request = Request("GET", SelfUrl(AvatarPath), TRUE)
  /\ req[1].cls = "static"
  /\ req[1].put = "stored"
  /\ SelfUrl(AvatarPath) \in DOMAIN cacheData[CACHE_NAME]
  /\ RUNTIME_CACHE \notin SeqToSet(cacheNames)

\* ------------------------------------------- stale-while-revalidate failure
\* C23 (as claimed): when the network fetch of a stale-while-revalidate
\* handler fails, the handler resolves to the cached response if there is
\* one, and otherwise the promise given to respondWith rejects.
C23_FailureRejectsWithoutCache ==
  \A h \in Handlers :
    (req[h].cls = "html" /\ req[h].pc = "done" /\ req[h].net = NetFail) =>
      req[h].result = IF req[h].cached # None THEN req[h].cached ELSE Rejected

\* C23 (amended): when the network fetch of a stale-while-revalidate handler
\* fails, the handler resolves to the cached response if there is one, and
\* otherwise the promise given to respondWith resolves to undefined: it does
\* not reject, and what it resolves to is not a response.
C23_FailureResolvesUndefined ==
  \A h \in Handlers :
    (req[h].cls = "html" /\ req[h].pc = "done" /\ req[h].net = NetFail) =>
      /\ req[h].cached # None => req[h].result = req[h].cached
      /\ req[h].cached = None =>
           (req[h].result = Undefined /\ ~IsResponse(req[h].result))
      /\ req[h].put = "none"

\* A navigation's fetch failed with nothing cached, and the handler resolved
\* to undefined.
C23_Witness ==
  \E h \in Handlers :
    /\ req[h].cls = "html" /\ req[h].pc = "done" /\ req[h].net = NetFail
    /\ req[h].cached = None /\ req[h].result = Undefined

\* ------------------------------------------------------ default passthrough
\* C24 (as claimed): a default-branch handler tries the network first; when
\* the fetch fails it makes one lookup across all stores and resolves to the
\* hit, and when the lookup misses the promise given to respondWith rejects.
C24_PassthroughRejectsOnMiss ==
  \A h \in Handlers :
    (req[h].cls = "other" /\ req[h].pc = "done") =>
      /\ req[h].netCalls = 1
      /\ req[h].net # NetFail => req[h].result = req[h].net
      /\ req[h].net = NetFail =>
           req[h].result = IF req[h].cached # None THEN req[h].cached ELSE Rejected

\* C24 (amended): a default-branch handler tries the network first; when the
\* fetch fails it makes one lookup across all stores and resolves to the hit,
\* and when the lookup misses the promise given to respondWith resolves to
\* undefined: it does not reject, and what it resolves to is not a response.
C24_PassthroughResolvesUndefinedOnMiss ==
  /\ [](\A h \in Handlers :
          (req[h].cls = "other" /\ req[h].pc = "done") =>
            /\ req[h].netCalls = 1
            /\ req[h].put = "none"
            /\ req[h].net # NetFail => req[h].result = req[h].net
            /\ (req[h].net = NetFail /\ req[h].cached # None) =>
                 req[h].result = req[h].cached
            /\ (req[h].net = NetFail /\ req[h].cached = None) =>
                 (req[h].result = Undefined /\ ~IsResponse(req[h].result)))
  /\ [][\A h \in Handlers : DefFallback(h) =>
          LET key == KeyOf(req[h].request) IN
          /\ HoldersOf(key) = {} => req'[h].cached = None
          /\ HoldersOf(key) # {} =>
               req'[h].cached \in {cacheData[n][key] : n \in HoldersOf(key)}]_vars

\* The fetch of a request of the default branch failed, no store holds its
\* key, and the handler resolved to undefined.
C24_Witness ==
  \E h \in Handlers :
    /\ req[h].cls = "other" /\ req[h].pc = "done" /\ req[h].net = NetFail
    /\ HoldersOf(KeyOf(req[h].request)) = {}
    /\ req[h].result = Undefined

\* --------------------------------------------------------- cache-first miss
\* The response is one the cache-first branch stores: 200 and same-origin.
OkSameOrigin(resp) == IsResponse(resp) /\ resp.status = 200 /\ resp.type = "basic"

\* C25 (as claimed): when a cache-first handler has resolved to a network
\* response that is 200 and same-origin, the static store already holds that
\* response under the request's key.
C25_StoredBeforeReturned ==
  \A h \in Handlers :
    (req[h].cls = "static" /\ Responded(h) /\ OkSameOrigin(req[h].net)) =>
      /\ KeyOf(req[h].request) \in DOMAIN cacheData[CACHE_NAME]
      /\ req[h].put = "stored"

\* C25 (amended): on a cache-first miss the network response is returned at
\* once; when it is 200 and same-origin the write of its clone to the static
\* store is started, not awaited: the entry appears when the write settles,
\* after the call has resolved, or never when the write fails.  A response
\* with any other status or type is returned and nothing is written.
C25_WriteStartedNotAwaited ==
  /\ [][\A h \in Handlers : \A out \in AnyNetOutcome :
          (CFNet(h, out) /\ out # NetFail) =>
            /\ req'[h].result = out
            /\ cacheData' = cacheData
            /\ req'[h].put = IF out.status = 200 /\ out.type = "basic"
                             THEN "pending" ELSE "none"]_vars
  /\ [][\A h \in Handlers :
          (PutSettle(h, TRUE) /\ req[h].cls = "static") =>
            /\ Responded(h)
            /\ OkSameOrigin(req[h].net)
            /\ cacheData'[CACHE_NAME][KeyOf(req[h].request)] = req[h].net]_vars
  /\ [](\A h \in Handlers :
          (req[h].cls = "static" /\ req[h].pc = "done" /\ ~OkSameOrigin(req[h].net))
            => req[h].put = "none")

\* A cache-first handler has returned a 200 same-origin network response
\* that is not in the static store yet, and another one has returned a
\* cross-origin response that is not written at all.
C25_Witness ==
  \E h, g \in Handlers :
    /\ req[h].cls = "static" /\ Responded(h) /\ OkSameOrigin(req[h].net)
    /\ req[h].put = "pending"
    /\ KeyOf(req[h].request) \notin DOMAIN cacheData[CACHE_NAME]
    /\ req[g].cls = "static" /\ req[g].pc = "done"
    /\ IsResponse(req[g].net) /\ req[g].net.type = "cors" /\ req[g].net.status = 200
    /\ req[g].put = "none"

\* ------------------------------------------------------ cache-first lookup
\* C26 (as claimed): a cache-first lookup for a key the static store does
\* not hold is a miss and goes to the network, also when another store
\* holds the key.
C26_OnlyStaticStoreConsulted ==
  [][\A h \in Handlers :
       (CFMatch(h) /\ KeyOf(req[h].request) \notin DOMAIN cacheData[CACHE_NAME]) =>
         /\ req'[h].pc = "fetching"
         /\ req'[h].netCalls = 1
         /\ req'[h].result = None]_vars

\* ---------------------------------------------------------- last write wins
\* C27: under every interleaving of the handlers that write one key, the
\* runtime store's entry for the key is at every moment the complete
\* response one of them fetched (or the entry that was there before), each
\* completed write replaces exactly that entry with the writer's response,
\* and so the entry is that of the write that completed last.
C27_LastWriteWins ==
  /\ [](\A key \in DOMAIN cacheData[RUNTIME_CACHE] :
          LET w == WriterOf(RUNTIME_CACHE, key) IN
          IF w = 0 THEN cacheData[RUNTIME_CACHE][key] = OldEntry
          ELSE /\ req[w].put = "stored"
               /\ KeyOf(req[w].request) = key
               /\ cacheData[RUNTIME_CACHE][key] = req[w].net)
  /\ [][\A h \in Handlers :
          (PutSettle(h, TRUE) /\ req[h].cls \in {"html", "api"}) =>
            LET key == KeyOf(req[h].request) IN
            /\ cacheData'[RUNTIME_CACHE][key] = req[h].net
            /\ WriterOf(RUNTIME_CACHE, key)' = h
            /\ \A k \in DOMAIN cacheData[RUNTIME_CACHE] \ {key} :
                 cacheData'[RUNTIME_CACHE][k] = cacheData[RUNTIME_CACHE][k]]_vars
  /\ [][cacheData' # cacheData => \E h \in Handlers : PutSettle(h, TRUE)]_vars

\* Two handlers fetched different responses for one key, both writes are
\* done, and the entry is the response of the one that wrote last.
C27_Witness ==
  \E h, g \in Handlers :
    /\ h # g
    /\ req[h].put = "stored" /\ req[g].put = "stored"
    /\ KeyOf(req[h].request) = KeyOf(req[g].request)
    /\ req[h].net # req[g].net
    /\ req[g].replaced = req[h].net
    /\ cacheData[RUNTIME_CACHE][KeyOf(req[g].request)] = req[g].net

\* ------------------------------------------------------------ install list
\* C28 (as claimed): every path of the install list is a static asset for
\* the router, so a GET for any of them, after a fully successful install,
\* is answered from the cache without a network fetch.
C28_InstallListServedFromCache ==
  \A h \in Handlers :
    (/\ req[h].pc # "idle"
     /\ req[h].request.method = "GET"
     /\ KeyOf(req[h].request) \in AssetKeys
     /\ AssetKeys \subseteq DOMAIN cacheData[CACHE_NAME]) =>
      /\ req[h].cls = "static"
      /\ req[h].netCalls = 0

\* ------------------------------------------------------- decoder, non-object
\* The push text of the current event parsed to JSON that is a number, a
\* string, a boolean or null.
TextIsScalar ==
  /\ push.pc # "idle"
  /\ push.data # NoData
  /\ push.data.text # Throws
  /\ push.data.text.kind = "json"
  /\ push.data.text.value.t \in {"number", "string", "boolean", "null"}

\* C29: when the push text parses as JSON to a number, string, boolean or
\* null, the payload is the defaults unchanged; the text is the body only
\* when it is not JSON.
C29_ScalarJsonKeepsDefaults ==
  /\ TextIsScalar => push.payload = DefaultNotification
  /\ (/\ push.pc # "idle"
      /\ push.data # NoData
      /\ push.data.text # Throws
      /\ push.data.text.kind = "json"
      /\ push.payload.body # DefaultNotification.body) =>
       /\ push.data.text.value.t = "object"
       /\ push.payload.body = push.data.text.value.v["body"]

\* The push text "hi" in JSON quotes was decoded to the defaults.
C29_Witness ==
  /\ TextIsScalar
  /\ push.data.text = JsonText(Str("hi"))
  /\ push.payload = DefaultNotification
====
